---- MODULE Spec2Model ----
(***************************************************************************)
(* any_mpsc: dynamically typed values over one std::sync::mpsc channel.    *)
(* AnySender boxes a value, AnyReceiver / BufferedReceiver downcast it to  *)
(* the requested type.  BufferedReceiver parks mismatching values in a     *)
(* per-type FIFO buffer (Dfb).                                             *)
(***************************************************************************)
EXTENDS Integers, Sequences, FiniteSets, TLC

VARIABLES
    kind,       \* "buffered": buffered_channel(), "plain": channel()
    chan,       \* the queue of the mpsc channel, oldest first
    senders,    \* number of live sender handles
    rxAlive,    \* the receiving end has not been dropped
    buf,        \* BufferedReceiver.buf
    pc,         \* the consumer thread: "idle" or inside "recv_until"
    cur,        \* the latest recv_until call, with its count of loop-backs
    last,       \* history: the latest receive attempt, with the state it saw
                \* (pre_n: 1 when a sender was alive, 0 when none was)
    sent,       \* history: every value that entered the channel, in order
    delivered,  \* history: the values returned as Ok, in order
    handed,     \* history: the boxes handed back inside WrongType
    sendRes,    \* the result of the latest send
    calls       \* number of receiver operations called so far

vars == <<kind, chan, senders, rxAlive, buf, pc, cur, last,
          sent, delivered, handed, sendRes, calls>>

\* ------------------------------------------------------------------ bounds
MaxSend == 3
MaxCalls == 3
MaxSenders == 2

\* ------------------------------------------------------------- type tokens
Types == {"f32", "String"}

TypeIdOf(T) == CASE T = "f32" -> 1 [] T = "String" -> 2 [] OTHER -> 0

TypeIds == {TypeIdOf(T) : T \in Types}

\* Box<dyn Any>: the payload together with its runtime type identity.
NoBox == [type_id |-> 0, val |-> 0]

BoxNew(T, v) == [type_id |-> TypeIdOf(T), val |-> v]

type_id(box) == box.type_id

\* Box<dyn Any>::downcast::<T>(): Ok(payload) when the runtime type is T,
\* otherwise Err(the box itself).
downcast(box, T) ==
    IF type_id(box) = TypeIdOf(T)
    THEN [ok |-> TRUE, val |-> box.val, box |-> NoBox]
    ELSE [ok |-> FALSE, val |-> 0, box |-> box]

\* ------------------------------------------------------------ result values
Ok(v) == [tag |-> "Ok", val |-> v, box |-> NoBox, tid |-> 0, why |-> ""]
RecvError == [tag |-> "RecvError", val |-> 0, box |-> NoBox, tid |-> 0, why |-> "Disconnected"]
RecvTimeoutError(w) == [tag |-> "RecvTimeoutError", val |-> 0, box |-> NoBox, tid |-> 0, why |-> w]
TryRecvError(w) == [tag |-> "TryRecvError", val |-> 0, box |-> NoBox, tid |-> 0, why |-> w]
WrongType(b) == [tag |-> "WrongType", val |-> 0, box |-> b, tid |-> 0, why |-> ""]
BufRecvError(t) == [tag |-> "BufRecvError", val |-> 0, box |-> NoBox, tid |-> t, why |-> ""]
EmptyBuffer == [tag |-> "EmptyBuffer", val |-> 0, box |-> NoBox, tid |-> 0, why |-> ""]
\* Not a result: the calling thread is suspended inside mpsc::Receiver::recv.
Pending == [tag |-> "Pending", val |-> 0, box |-> NoBox, tid |-> 0, why |-> ""]
NoRes == [tag |-> "None", val |-> 0, box |-> NoBox, tid |-> 0, why |-> ""]

\* ------------------------------------------------- the physical channel end
\* mpsc::Receiver::recv: head of the queue; Err when the queue is empty and
\* every sender is gone; otherwise the thread waits.
rx_recv(rx, n) ==
    IF rx # <<>> THEN [tag |-> "Ok", box |-> Head(rx), rest |-> Tail(rx), why |-> ""]
    ELSE IF n = 0 THEN [tag |-> "Err", box |-> NoBox, rest |-> rx, why |-> "Disconnected"]
    ELSE [tag |-> "Pending", box |-> NoBox, rest |-> rx, why |-> ""]

\* mpsc::Receiver::recv_timeout: as recv, but the wait ends with Timeout.
rx_recv_timeout(rx, n) ==
    IF rx # <<>> THEN [tag |-> "Ok", box |-> Head(rx), rest |-> Tail(rx), why |-> ""]
    ELSE IF n = 0 THEN [tag |-> "Err", box |-> NoBox, rest |-> rx, why |-> "Disconnected"]
    ELSE [tag |-> "Err", box |-> NoBox, rest |-> rx, why |-> "Timeout"]

\* mpsc::Receiver::try_recv: never waits.
rx_try_recv(rx, n) ==
    IF rx # <<>> THEN [tag |-> "Ok", box |-> Head(rx), rest |-> Tail(rx), why |-> ""]
    ELSE IF n = 0 THEN [tag |-> "Err", box |-> NoBox, rest |-> rx, why |-> "Disconnected"]
    ELSE [tag |-> "Err", box |-> NoBox, rest |-> rx, why |-> "Empty"]

\* ------------------------------------------------------ the type-keyed buffer
Dfb_new == [t \in TypeIds |-> <<>>]

Dfb_insert_dyn(b, box) == [b EXCEPT ![type_id(box)] = Append(@, box)]

Dfb_remove(b, T) ==
    IF b[TypeIdOf(T)] = <<>>
    THEN [some |-> FALSE, val |-> 0, buf |-> b]
    ELSE [some |-> TRUE, val |-> Head(b[TypeIdOf(T)]).val,
          buf |-> [b EXCEPT ![TypeIdOf(T)] = Tail(@)]]

\* An operation's outcome: its result, and the channel queue and buffer it
\* leaves behind.
Out(r, rx, b) == [res |-> r, rx |-> rx, buf |-> b]

\* --------------------------------------------------------------- AnyReceiver
\* Mutant: the value is returned but left at the head of the channel.
AnyReceiver_recv_peeks(T, rx, n) ==
    LET r == rx_recv(rx, n) IN
    IF r.tag = "Pending" THEN Out(Pending, rx, Dfb_new)
    ELSE IF r.tag = "Err" THEN Out(RecvError, rx, Dfb_new)
    ELSE LET d == downcast(r.box, T) IN
         IF d.ok THEN Out(Ok(d.val), rx, Dfb_new)
         ELSE Out(WrongType(d.box), r.rest, Dfb_new)

\* AnyReceiver::recv<T>: it owns no buffer.
AnyReceiver_recv(T, rx, n) ==
    LET r == rx_recv(rx, n) IN
    IF r.tag = "Pending" THEN Out(Pending, rx, Dfb_new)
    ELSE IF r.tag = "Err" THEN Out(RecvError, rx, Dfb_new)
    ELSE LET d == downcast(r.box, T) IN
         IF d.ok THEN Out(Ok(d.val), r.rest, Dfb_new)
         ELSE Out(WrongType(d.box), r.rest, Dfb_new)

\* AnyReceiver::recv_timeout<T>.
AnyReceiver_recv_timeout(T, rx, n) ==
    LET r == rx_recv_timeout(rx, n) IN
    IF r.tag = "Pending" THEN Out(Pending, rx, Dfb_new)
    ELSE IF r.tag = "Err" THEN Out(RecvTimeoutError(r.why), rx, Dfb_new)
    ELSE LET d == downcast(r.box, T) IN
         IF d.ok THEN Out(Ok(d.val), r.rest, Dfb_new)
         ELSE Out(WrongType(d.box), r.rest, Dfb_new)

\* AnyReceiver::try_recv<T>.
AnyReceiver_try_recv(T, rx, n) ==
    LET r == rx_try_recv(rx, n) IN
    IF r.tag = "Pending" THEN Out(Pending, rx, Dfb_new)
    ELSE IF r.tag = "Err" THEN Out(TryRecvError(r.why), rx, Dfb_new)
    ELSE LET d == downcast(r.box, T) IN
         IF d.ok THEN Out(Ok(d.val), r.rest, Dfb_new)
         ELSE Out(WrongType(d.box), r.rest, Dfb_new)

\* ---------------------------------------------------------- BufferedReceiver
\* Mutant: the channel is asked before the buffer.
recv_chan_first(T, rx, n, b) ==
    LET m == Dfb_remove(b, T) IN
    IF rx # <<>> /\ downcast(Head(rx), T).ok THEN Out(Ok(Head(rx).val), Tail(rx), b)
    ELSE IF m.some THEN Out(Ok(m.val), rx, m.buf)
    ELSE LET r == rx_recv(rx, n) IN
         IF r.tag = "Pending" THEN Out(Pending, rx, b)
         ELSE IF r.tag = "Err" THEN Out(RecvError, rx, b)
         ELSE LET d == downcast(r.box, T) IN
              IF d.ok THEN Out(Ok(d.val), r.rest, b)
              ELSE Out(BufRecvError(type_id(d.box)), r.rest, Dfb_insert_dyn(b, d.box))

\* Mutant: a mismatching value is dropped instead of parked in the buffer.
recv_drop_mismatch(T, rx, n, b) ==
    LET m == Dfb_remove(b, T) IN
    IF m.some THEN Out(Ok(m.val), rx, m.buf)
    ELSE LET r == rx_recv(rx, n) IN
         IF r.tag = "Pending" THEN Out(Pending, rx, b)
         ELSE IF r.tag = "Err" THEN Out(RecvError, rx, b)
         ELSE LET d == downcast(r.box, T) IN
              IF d.ok THEN Out(Ok(d.val), r.rest, b)
              ELSE Out(BufRecvError(type_id(d.box)), r.rest, b)

\* Mutant: the error names the requested type, not the received one.
recv_requested_tid(T, rx, n, b) ==
    LET m == Dfb_remove(b, T) IN
    IF m.some THEN Out(Ok(m.val), rx, m.buf)
    ELSE LET r == rx_recv(rx, n) IN
         IF r.tag = "Pending" THEN Out(Pending, rx, b)
         ELSE IF r.tag = "Err" THEN Out(RecvError, rx, b)
         ELSE LET d == downcast(r.box, T) IN
              IF d.ok THEN Out(Ok(d.val), r.rest, b)
              ELSE Out(BufRecvError(TypeIdOf(T)), r.rest, Dfb_insert_dyn(b, d.box))

\* Mutant: a disconnected channel is waited on like an empty one.
recv_waits_when_closed(T, rx, n, b) ==
    LET m == Dfb_remove(b, T) IN
    IF m.some THEN Out(Ok(m.val), rx, m.buf)
    ELSE LET r == rx_recv(rx, n) IN
         IF r.tag = "Pending" THEN Out(Pending, rx, b)
         ELSE IF r.tag = "Err" THEN Out(Pending, rx, b)
         ELSE LET d == downcast(r.box, T) IN
              IF d.ok THEN Out(Ok(d.val), r.rest, b)
              ELSE Out(BufRecvError(type_id(d.box)), r.rest, Dfb_insert_dyn(b, d.box))

\* BufferedReceiver::recv<T>: the buffer first, then a blocking channel recv.
recv(T, rx, n, b) ==
    LET m == Dfb_remove(b, T) IN
    IF m.some THEN Out(Ok(m.val), rx, m.buf)
    ELSE LET r == rx_recv(rx, n) IN
         IF r.tag = "Pending" THEN Out(Pending, rx, b)
         ELSE IF r.tag = "Err" THEN Out(RecvError, rx, b)
         ELSE LET d == downcast(r.box, T) IN
              IF d.ok THEN Out(Ok(d.val), r.rest, b)
              ELSE Out(BufRecvError(type_id(d.box)), r.rest, Dfb_insert_dyn(b, d.box))

\* Mutant: recv_live takes from the buffer first, as recv does.
recv_live_checks_buffer(T, rx, n, b) ==
    LET m == Dfb_remove(b, T) IN
    IF m.some THEN Out(Ok(m.val), rx, m.buf)
    ELSE LET r == rx_recv(rx, n) IN
         IF r.tag = "Pending" THEN Out(Pending, rx, b)
         ELSE IF r.tag = "Err" THEN Out(RecvError, rx, b)
         ELSE LET d == downcast(r.box, T) IN
              IF d.ok THEN Out(Ok(d.val), r.rest, b)
              ELSE Out(BufRecvError(type_id(d.box)), r.rest, Dfb_insert_dyn(b, d.box))

\* Mutant: a mismatching value is reported and dropped.
recv_live_drops_mismatch(T, rx, n, b) ==
    LET r == rx_recv(rx, n) IN
    IF r.tag = "Pending" THEN Out(Pending, rx, b)
    ELSE IF r.tag = "Err" THEN Out(RecvError, rx, b)
    ELSE LET d == downcast(r.box, T) IN
         IF d.ok THEN Out(Ok(d.val), r.rest, b)
         ELSE Out(BufRecvError(type_id(d.box)), r.rest, b)

\* BufferedReceiver::recv_live<T>: a blocking channel recv, the buffer is not read.
recv_live(T, rx, n, b) ==
    LET r == rx_recv(rx, n) IN
         IF r.tag = "Pending" THEN Out(Pending, rx, b)
         ELSE IF r.tag = "Err" THEN Out(RecvError, rx, b)
         ELSE LET d == downcast(r.box, T) IN
              IF d.ok THEN Out(Ok(d.val), r.rest, b)
              ELSE Out(BufRecvError(type_id(d.box)), r.rest, Dfb_insert_dyn(b, d.box))

\* Mutant: a matching value is returned and parked as well.
recv_timeout_parks_match(T, rx, n, b) ==
    LET m == Dfb_remove(b, T) IN
    IF m.some THEN Out(Ok(m.val), rx, m.buf)
    ELSE LET r == rx_recv_timeout(rx, n) IN
         IF r.tag = "Pending" THEN Out(Pending, rx, b)
         ELSE IF r.tag = "Err" THEN Out(RecvTimeoutError(r.why), rx, b)
         ELSE LET d == downcast(r.box, T) IN
              IF d.ok THEN Out(Ok(d.val), r.rest, Dfb_insert_dyn(b, r.box))
              ELSE Out(BufRecvError(type_id(d.box)), r.rest, Dfb_insert_dyn(b, d.box))

\* Mutant: the buffer is emptied when the channel call fails.
recv_timeout_loses_buffer(T, rx, n, b) ==
    LET m == Dfb_remove(b, T) IN
    IF m.some THEN Out(Ok(m.val), rx, m.buf)
    ELSE LET r == rx_recv_timeout(rx, n) IN
         IF r.tag = "Pending" THEN Out(Pending, rx, b)
         ELSE IF r.tag = "Err" THEN Out(RecvTimeoutError(r.why), rx, Dfb_new)
         ELSE LET d == downcast(r.box, T) IN
              IF d.ok THEN Out(Ok(d.val), r.rest, b)
              ELSE Out(BufRecvError(type_id(d.box)), r.rest, Dfb_insert_dyn(b, d.box))

\* BufferedReceiver::recv_timeout<T>: the buffer first, then recv_timeout.
recv_timeout(T, rx, n, b) ==
    LET m == Dfb_remove(b, T) IN
    IF m.some THEN Out(Ok(m.val), rx, m.buf)
    ELSE LET r == rx_recv_timeout(rx, n) IN
         IF r.tag = "Pending" THEN Out(Pending, rx, b)
         ELSE IF r.tag = "Err" THEN Out(RecvTimeoutError(r.why), rx, b)
         ELSE LET d == downcast(r.box, T) IN
              IF d.ok THEN Out(Ok(d.val), r.rest, b)
              ELSE Out(BufRecvError(type_id(d.box)), r.rest, Dfb_insert_dyn(b, d.box))

\* BufferedReceiver::recv_timeout_live<T>: the body starts with buf.remove::<T>(),
\* as recv_timeout does.
recv_timeout_live(T, rx, n, b) ==
    LET m == Dfb_remove(b, T) IN
    IF m.some THEN Out(Ok(m.val), rx, m.buf)
    ELSE LET r == rx_recv_timeout(rx, n) IN
         IF r.tag = "Pending" THEN Out(Pending, rx, b)
         ELSE IF r.tag = "Err" THEN Out(RecvTimeoutError(r.why), rx, b)
         ELSE LET d == downcast(r.box, T) IN
              IF d.ok THEN Out(Ok(d.val), r.rest, b)
              ELSE Out(BufRecvError(type_id(d.box)), r.rest, Dfb_insert_dyn(b, d.box))

\* Mutant: the channel is read with the blocking recv.
try_recv_blocks(T, rx, n, b) ==
    LET m == Dfb_remove(b, T) IN
    IF m.some THEN Out(Ok(m.val), rx, m.buf)
    ELSE LET r == rx_recv(rx, n) IN
         IF r.tag = "Pending" THEN Out(Pending, rx, b)
         ELSE IF r.tag = "Err" THEN Out(TryRecvError(r.why), rx, b)
         ELSE LET d == downcast(r.box, T) IN
              IF d.ok THEN Out(Ok(d.val), r.rest, b)
              ELSE Out(BufRecvError(type_id(d.box)), r.rest, Dfb_insert_dyn(b, d.box))

\* Mutant: the channel is polled first, the buffer serves only an empty channel.
try_recv_polls_first(T, rx, n, b) ==
    LET r == rx_try_recv(rx, n)
        m == Dfb_remove(b, T) IN
    IF r.tag = "Err"
    THEN IF m.some THEN Out(Ok(m.val), rx, m.buf) ELSE Out(TryRecvError(r.why), rx, b)
    ELSE LET d == downcast(r.box, T) IN
         IF d.ok THEN Out(Ok(d.val), r.rest, b)
         ELSE Out(BufRecvError(type_id(d.box)), r.rest, Dfb_insert_dyn(b, d.box))

\* BufferedReceiver::try_recv<T>: the buffer first, then try_recv.
try_recv(T, rx, n, b) ==
    LET m == Dfb_remove(b, T) IN
    IF m.some THEN Out(Ok(m.val), rx, m.buf)
    ELSE LET r == rx_try_recv(rx, n) IN
         IF r.tag = "Pending" THEN Out(Pending, rx, b)
         ELSE IF r.tag = "Err" THEN Out(TryRecvError(r.why), rx, b)
         ELSE LET d == downcast(r.box, T) IN
              IF d.ok THEN Out(Ok(d.val), r.rest, b)
              ELSE Out(BufRecvError(type_id(d.box)), r.rest, Dfb_insert_dyn(b, d.box))

\* BufferedReceiver::try_recv_live<T>: the body starts with buf.remove::<T>(),
\* as try_recv does.
try_recv_live(T, rx, n, b) ==
    LET m == Dfb_remove(b, T) IN
    IF m.some THEN Out(Ok(m.val), rx, m.buf)
    ELSE LET r == rx_try_recv(rx, n) IN
         IF r.tag = "Pending" THEN Out(Pending, rx, b)
         ELSE IF r.tag = "Err" THEN Out(TryRecvError(r.why), rx, b)
         ELSE LET d == downcast(r.box, T) IN
              IF d.ok THEN Out(Ok(d.val), r.rest, b)
              ELSE Out(BufRecvError(type_id(d.box)), r.rest, Dfb_insert_dyn(b, d.box))

\* Mutant: the mismatching value is also parked in the buffer.
recv_nobuf_buffers(T, rx, n, b) ==
    LET r == rx_recv(rx, n) IN
    IF r.tag = "Pending" THEN Out(Pending, rx, b)
    ELSE IF r.tag = "Err" THEN Out(RecvError, rx, b)
    ELSE LET d == downcast(r.box, T) IN
         IF d.ok THEN Out(Ok(d.val), r.rest, b)
         ELSE Out(WrongType(d.box), r.rest, Dfb_insert_dyn(b, d.box))

\* BufferedReceiver::recv_nobuf<T>: bypasses the buffer.
recv_nobuf(T, rx, n, b) ==
    LET r == rx_recv(rx, n) IN
    IF r.tag = "Pending" THEN Out(Pending, rx, b)
    ELSE IF r.tag = "Err" THEN Out(RecvError, rx, b)
    ELSE LET d == downcast(r.box, T) IN
         IF d.ok THEN Out(Ok(d.val), r.rest, b)
         ELSE Out(WrongType(d.box), r.rest, b)

\* BufferedReceiver::recv_timeout_nobuf<T>.
recv_timeout_nobuf(T, rx, n, b) ==
    LET r == rx_recv_timeout(rx, n) IN
    IF r.tag = "Pending" THEN Out(Pending, rx, b)
    ELSE IF r.tag = "Err" THEN Out(RecvTimeoutError(r.why), rx, b)
    ELSE LET d == downcast(r.box, T) IN
         IF d.ok THEN Out(Ok(d.val), r.rest, b)
         ELSE Out(WrongType(d.box), r.rest, b)

\* Mutant: the channel's error is wrapped as the blocking recv's error.
try_recv_nobuf_reports_closed(T, rx, n, b) ==
    LET r == rx_try_recv(rx, n) IN
    IF r.tag = "Pending" THEN Out(Pending, rx, b)
    ELSE IF r.tag = "Err" THEN Out(RecvError, rx, b)
    ELSE LET d == downcast(r.box, T) IN
         IF d.ok THEN Out(Ok(d.val), r.rest, b)
         ELSE Out(WrongType(d.box), r.rest, b)

\* BufferedReceiver::try_recv_nobuf<T>.
try_recv_nobuf(T, rx, n, b) ==
    LET r == rx_try_recv(rx, n) IN
    IF r.tag = "Pending" THEN Out(Pending, rx, b)
    ELSE IF r.tag = "Err" THEN Out(TryRecvError(r.why), rx, b)
    ELSE LET d == downcast(r.box, T) IN
         IF d.ok THEN Out(Ok(d.val), r.rest, b)
         ELSE Out(WrongType(d.box), r.rest, b)

\* Mutant: an empty buffer falls through to the channel.
recv_buf_falls_through(T, rx, n, b) ==
    LET m == Dfb_remove(b, T) IN
    IF m.some THEN Out(Ok(m.val), rx, m.buf)
    ELSE LET r == rx_try_recv(rx, n) IN
         IF r.tag = "Err" THEN Out(EmptyBuffer, rx, b)
         ELSE LET d == downcast(r.box, T) IN
              IF d.ok THEN Out(Ok(d.val), r.rest, b)
              ELSE Out(EmptyBuffer, r.rest, Dfb_insert_dyn(b, d.box))

\* BufferedReceiver::recv_buf<T>: the buffer only.
recv_buf(T, rx, n, b) ==
    LET m == Dfb_remove(b, T) IN
    IF m.some THEN Out(Ok(m.val), rx, m.buf)
    ELSE Out(EmptyBuffer, rx, b)

\* Mutant: the loop breaks with whatever the inner recv returned.
recv_until_breaks_on_mismatch(T, rx, n, b) ==
    LET o == recv(T, rx, n, b) IN
    [out |-> o, continue |-> FALSE]

\* Mutant: the loop also goes round again on the closed-channel error.
recv_until_retries_closed(T, rx, n, b) ==
    LET o == recv(T, rx, n, b) IN
    [out |-> o, continue |-> o.res.tag \in {"BufRecvError", "RecvError"}]

\* Mutant: the loop discards the mismatching value together with the error.
recv_until_discards(T, rx, n, b) ==
    LET o == recv(T, rx, n, b) IN
    [out |-> IF o.res.tag = "BufRecvError" THEN Out(o.res, o.rx, b) ELSE o,
     continue |-> o.res.tag = "BufRecvError"]

\* Mutant: a mismatching value is parked but stays at the head of the channel.
recv_until_peeks(T, rx, n, b) ==
    LET o == recv(T, rx, n, b) IN
    [out |-> IF o.res.tag = "BufRecvError" THEN Out(o.res, rx, o.buf) ELSE o,
     continue |-> o.res.tag = "BufRecvError"]

\* One pass of the loop of BufferedReceiver::recv_until<T>: the inner recv<T>
\* and whether the loop goes round again (continue) or breaks with the result.
recv_until(T, rx, n, b) ==
    LET o == recv(T, rx, n, b) IN
    [out |-> o, continue |-> o.res.tag = "BufRecvError"]

\* Mutant: the box is put at the head of the queue.
AnySender_send_front(T, v, rx, alive) ==
    IF alive THEN [ok |-> TRUE, rx |-> <<BoxNew(T, v)>> \o rx]
    ELSE [ok |-> FALSE, rx |-> rx]

\* AnySender::send<T>: box the value and push it; SendError hands the box back
\* when the receiving end is gone.
AnySender_send(T, v, rx, alive) ==
    IF alive THEN [ok |-> TRUE, rx |-> Append(rx, BoxNew(T, v))]
    ELSE [ok |-> FALSE, rx |-> rx]

\* ------------------------------------------------------------------- state
\* The operations documented to take from the internal buffer before the
\* channel (recv_buf: from the buffer only).
BufferChecking == {"recv_until", "recv", "recv_timeout", "try_recv", "recv_buf"}

NoCall == [op |-> "none", T |-> "none", first |-> 0, iters |-> 0]

NoRecord == [op |-> "none", T |-> "none", res |-> NoRes,
             pre_rx |-> <<>>, pre_buf |-> Dfb_new, pre_n |-> 0,
             post_rx |-> <<>>, post_buf |-> Dfb_new, returned |-> FALSE]

\* channel() / buffered_channel(): one sender, an empty queue, an empty buffer.
Init ==
    /\ kind \in {"buffered", "plain"}
    /\ chan = <<>>
    /\ senders = 1
    /\ rxAlive = TRUE
    /\ buf = Dfb_new
    /\ pc = "idle"
    /\ cur = NoCall
    /\ last = NoRecord
    /\ sent = <<>>
    /\ delivered = <<>>
    /\ handed = {}
    /\ sendRes = "none"
    /\ calls = 0

\* ---------------------------------------------------------------- producers
Send(T) ==
    /\ senders > 0
    /\ Len(sent) < MaxSend
    /\ LET s == AnySender_send(T, Len(sent) + 1, chan, rxAlive) IN
         /\ chan' = s.rx
         /\ sendRes' = IF s.ok THEN "Ok" ELSE "SendError"
         /\ sent' = IF s.ok THEN Append(sent, BoxNew(T, Len(sent) + 1)) ELSE sent
    /\ UNCHANGED <<kind, senders, rxAlive, buf, pc, cur, last, delivered, handed, calls>>

\* A further producer: a second AnySender around a clone of the mpsc::Sender.
CloneSender ==
    /\ senders > 0
    /\ senders < MaxSenders
    /\ senders' = senders + 1
    /\ UNCHANGED <<kind, chan, rxAlive, buf, pc, cur, last, sent, delivered, handed, sendRes, calls>>

DropSender ==
    /\ senders > 0
    /\ senders' = senders - 1
    /\ UNCHANGED <<kind, chan, rxAlive, buf, pc, cur, last, sent, delivered, handed, sendRes, calls>>

\* The consumer drops its receiver: queue and buffer are freed with it, and
\* the record of what the receiver saw ends with it.
DropReceiver ==
    /\ rxAlive
    /\ pc = "idle"
    /\ rxAlive' = FALSE
    /\ chan' = <<>>
    /\ buf' = Dfb_new
    /\ cur' = NoCall
    /\ last' = NoRecord
    /\ delivered' = <<>>
    /\ handed' = {}
    /\ UNCHANGED <<kind, senders, pc, sent, sendRes, calls>>

\* ----------------------------------------------------------------- consumer
Record(op, T, o, ret) ==
    [op |-> op, T |-> T, res |-> o.res,
     pre_rx |-> chan, pre_buf |-> buf, pre_n |-> IF senders > 0 THEN 1 ELSE 0,
     post_rx |-> o.rx, post_buf |-> o.buf, returned |-> ret]

\* The effect of one receive attempt of operation op<T> with outcome o.  A
\* Pending outcome is no step: the thread stays suspended in the channel recv.
Effect(op, T, o, ret) ==
    /\ o.res.tag # "Pending"
    /\ chan' = o.rx
    /\ buf' = o.buf
    /\ last' = Record(op, T, o, ret)
    /\ delivered' = IF o.res.tag = "Ok"
                    THEN Append(delivered, [tid |-> TypeIdOf(T), val |-> o.res.val,
                                             checked |-> op \in BufferChecking])
                    ELSE delivered
    /\ handed' = IF o.res.tag = "WrongType" THEN handed \cup {o.res.box} ELSE handed
    /\ UNCHANGED <<kind, senders, rxAlive, sent, sendRes>>

\* A single-attempt operation, from call to return.
Call(op, T, o) ==
    /\ kind = "buffered"
    /\ rxAlive
    /\ pc = "idle"
    /\ calls < MaxCalls
    /\ calls' = calls + 1
    /\ Effect(op, T, o, TRUE)
    /\ cur' = NoCall
    /\ UNCHANGED pc

\* The consumer enters recv_until<T>.
RecvUntilCall(T) ==
    /\ kind = "buffered"
    /\ rxAlive
    /\ pc = "idle"
    /\ calls < MaxCalls
    /\ calls' = calls + 1
    /\ pc' = "recv_until"
    /\ cur' = [op |-> "recv_until", T |-> T,
               first |-> IF chan # <<>> THEN Head(chan).val ELSE Len(sent) + 1,
               iters |-> 0]
    /\ UNCHANGED <<kind, chan, senders, rxAlive, buf, last, sent, delivered, handed, sendRes>>

\* One pass of recv_until's loop: go round again, or return the result.  The
\* count of loop-backs stops at MaxSend + 1: a pass that loops back takes one
\* value from the channel, so the count never gets that far.
RecvUntil ==
    /\ pc = "recv_until"
    /\ LET s == recv_until(cur.T, chan, senders, buf) IN
         /\ Effect("recv_until", cur.T, s.out, ~s.continue)
         /\ pc' = IF s.continue THEN pc ELSE "idle"
         /\ cur' = IF s.continue
                   THEN [cur EXCEPT !.iters = IF @ <= MaxSend THEN @ + 1 ELSE @]
                   ELSE cur
    /\ UNCHANGED calls

Recv(T) == Call("recv", T, recv(T, chan, senders, buf))

RecvLive(T) == Call("recv_live", T, recv_live(T, chan, senders, buf))

RecvTimeout(T) == Call("recv_timeout", T, recv_timeout(T, chan, senders, buf))

RecvTimeoutLive(T) == Call("recv_timeout_live", T, recv_timeout_live(T, chan, senders, buf))

TryRecv(T) == Call("try_recv", T, try_recv(T, chan, senders, buf))

TryRecvLive(T) == Call("try_recv_live", T, try_recv_live(T, chan, senders, buf))

RecvNobuf(T) == Call("recv_nobuf", T, recv_nobuf(T, chan, senders, buf))

RecvTimeoutNobuf(T) == Call("recv_timeout_nobuf", T, recv_timeout_nobuf(T, chan, senders, buf))

TryRecvNobuf(T) == Call("try_recv_nobuf", T, try_recv_nobuf(T, chan, senders, buf))

RecvBuf(T) == Call("recv_buf", T, recv_buf(T, chan, senders, buf))

\* An operation of the AnyReceiver of a plain channel().
AnyCall(op, T, o) ==
    /\ kind = "plain"
    /\ rxAlive
    /\ pc = "idle"
    /\ calls < MaxCalls
    /\ calls' = calls + 1
    /\ Effect(op, T, o, TRUE)
    /\ cur' = NoCall
    /\ UNCHANGED pc

AnyReceiverRecv(T) == AnyCall("AnyReceiver_recv", T, AnyReceiver_recv(T, chan, senders))

AnyReceiverRecvTimeout(T) == AnyCall("AnyReceiver_recv_timeout", T, AnyReceiver_recv_timeout(T, chan, senders))

AnyReceiverTryRecv(T) == AnyCall("AnyReceiver_try_recv", T, AnyReceiver_try_recv(T, chan, senders))

Next ==
    \/ \E T \in Types : Send(T)
    \/ CloneSender
    \/ DropSender
    \/ DropReceiver
    \/ \E T \in Types : RecvUntilCall(T)
    \/ RecvUntil
    \/ \E T \in Types : Recv(T)
    \/ \E T \in Types : RecvLive(T)
    \/ \E T \in Types : RecvTimeout(T)
    \/ \E T \in Types : RecvTimeoutLive(T)
    \/ \E T \in Types : TryRecv(T)
    \/ \E T \in Types : TryRecvLive(T)
    \/ \E T \in Types : RecvNobuf(T)
    \/ \E T \in Types : RecvTimeoutNobuf(T)
    \/ \E T \in Types : TryRecvNobuf(T)
    \/ \E T \in Types : RecvBuf(T)
    \/ \E T \in Types : AnyReceiverRecv(T)
    \/ \E T \in Types : AnyReceiverRecvTimeout(T)
    \/ \E T \in Types : AnyReceiverTryRecv(T)

Spec == Init /\ [][Next]_vars

\* The default mode: a consumer of a buffered channel that only calls recv.
InitBuffered == Init /\ kind = "buffered"

NextRecvOnly ==
    \/ \E T \in Types : Send(T)
    \/ CloneSender
    \/ DropSender
    \/ DropReceiver
    \/ \E T \in Types : Recv(T)

SpecRecvOnly == InitBuffered /\ [][NextRecvOnly]_vars

\* A consumer thread that only calls recv_until, scheduled fairly: whenever a
\* pass of the loop can run (the channel recv inside it is not suspended), it
\* eventually runs.
NextUntil ==
    \/ \E T \in Types : Send(T)
    \/ CloneSender
    \/ DropSender
    \/ \E T \in Types : RecvUntilCall(T)
    \/ RecvUntil

SpecUntilFair == InitBuffered /\ [][NextUntil]_vars /\ WF_vars(RecvUntil)

\* ================================================================== claims
\* C1 (as stated): over every Buffered Receiver operation, the values of one
\* type that are returned as Ok are returned in the order in which they
\* entered the channel.
C1_PerTypeFifoAllOps ==
    kind = "buffered" =>
        \A i, j \in DOMAIN delivered :
            (i < j /\ delivered[i].tid = delivered[j].tid)
                => delivered[i].val < delivered[j].val

\* C1 (amended): a value of type T returned by an operation that takes from
\* the buffer first (recv, recv_timeout, try_recv, recv_until, recv_buf)
\* entered the channel before every value of type T returned after it, by
\* whatever operation.
C1_PerTypeFifoAfterBufferChecking ==
    kind = "buffered" =>
        \A i, j \in DOMAIN delivered :
            (i < j /\ delivered[i].tid = delivered[j].tid /\ delivered[i].checked)
                => delivered[i].val < delivered[j].val

\* A buffer hit of recv<T> after an earlier T was returned by a buffer-checking
\* operation.
C1_Witness ==
    /\ kind = "buffered"
    /\ last.op = "recv" /\ last.res.tag = "Ok"
    /\ last.pre_buf[TypeIdOf(last.T)] # <<>>
    /\ \E i \in DOMAIN delivered :
          /\ i < Len(delivered)
          /\ delivered[i].tid = TypeIdOf(last.T)
          /\ delivered[i].checked

\* The values of runtime type t in a sequence of boxes / of deliveries.
ValsOfType(seq, t) ==
    LET Is(x) == x.type_id = t
        f == SelectSeq(seq, Is)
    IN [i \in DOMAIN f |-> f[i].val]

DeliveredOfType(t) ==
    LET Is(x) == x.tid = t
        f == SelectSeq(delivered, Is)
    IN [i \in DOMAIN f |-> f[i].val]

IsPrefix(a, b) == Len(a) <= Len(b) /\ \A i \in DOMAIN a : a[i] = b[i]

\* C2: with a consumer that only calls recv, the k-th successful recv<T>
\* returns the k-th value of type T that was sent, whatever mismatching recv
\* calls for other types happened in between.
C2_DefaultModeFifo ==
    \A t \in TypeIds : IsPrefix(DeliveredOfType(t), ValsOfType(sent, t))

\* The second value of a type comes back from the buffer, where a
\* mismatching recv for the other type parked it.
C2_Witness ==
    /\ last.op = "recv" /\ last.res.tag = "Ok"
    /\ last.pre_buf[TypeIdOf(last.T)] # <<>>
    /\ last.post_rx = last.pre_rx
    /\ Len(DeliveredOfType(TypeIdOf(last.T))) = 2

\* C3: recv<B> on a buffer without B and a channel whose head has type A # B
\* fails with BufRecvError(A's identity) and moves the head into A's queue; a
\* recv<A> called next, when that value is the only buffered A, returns
\* exactly it and leaves the channel alone.
C3_BufferingOnMismatch ==
    kind = "buffered" =>
      /\ (/\ last.op = "recv"
          /\ last.pre_buf[TypeIdOf(last.T)] = <<>>
          /\ last.pre_rx # <<>>
          /\ type_id(Head(last.pre_rx)) # TypeIdOf(last.T))
            => /\ last.res = BufRecvError(type_id(Head(last.pre_rx)))
               /\ last.res.tid # TypeIdOf(last.T)
               /\ last.post_rx = Tail(last.pre_rx)
               /\ last.post_buf = [last.pre_buf EXCEPT ![type_id(Head(last.pre_rx))]
                                      = Append(@, Head(last.pre_rx))]
      /\ (/\ last.op = "recv" /\ last.res.tag = "BufRecvError"
          /\ Len(buf[last.res.tid]) = 1)
            => \A A \in Types : TypeIdOf(A) = last.res.tid =>
                  /\ recv(A, chan, senders, buf).res = Ok(Head(last.pre_rx).val)
                  /\ recv(A, chan, senders, buf).rx = chan
                  /\ recv(A, chan, senders, buf).buf = [buf EXCEPT ![TypeIdOf(A)] = <<>>]
      /\ (last.op = "recv" /\ Len(last.pre_buf[TypeIdOf(last.T)]) = 1)
            => /\ last.res = Ok(last.pre_buf[TypeIdOf(last.T)][1].val)
               /\ last.post_rx = last.pre_rx
               /\ last.post_buf = [last.pre_buf EXCEPT ![TypeIdOf(last.T)] = <<>>]

\* The second call of the receiver, a recv<A>, has returned the value that
\* the mismatching call before it parked, while the channel held further
\* values.
C3_Witness ==
    /\ kind = "buffered" /\ calls = 2
    /\ last.op = "recv" /\ last.res.tag = "Ok"
    /\ Len(last.pre_buf[TypeIdOf(last.T)]) = 1
    /\ last.pre_rx # <<>>

\* C4: recv_timeout_live<T> and try_recv_live<T> called while the buffer holds
\* values of type T leave T's queue as it was and go to the channel: they take
\* its head, or fail with the channel's timeout / empty / disconnected error.
C4_TimeoutLiveAndTryLiveSkipBuffer ==
    (/\ kind = "buffered"
     /\ last.op \in {"recv_timeout_live", "try_recv_live"}
     /\ last.pre_buf[TypeIdOf(last.T)] # <<>>)
        => /\ last.post_buf[TypeIdOf(last.T)] = last.pre_buf[TypeIdOf(last.T)]
           /\ last.pre_rx # <<>> => last.post_rx = Tail(last.pre_rx)
           /\ last.pre_rx = <<>> => last.res.tag \in {"RecvTimeoutError", "TryRecvError"}

\* C5: recv_live<T> takes exactly the head of the channel or fails with the
\* closed-channel error, whatever the buffer holds; it removes nothing from
\* the buffer, and a mismatching head is appended to the buffer and reported
\* as BufRecvError of its type identity.
C5_RecvLiveAlwaysHitsChannel ==
    (kind = "buffered" /\ last.op = "recv_live") =>
      /\ \A t \in TypeIds : IsPrefix(last.pre_buf[t], last.post_buf[t])
      /\ last.pre_rx = <<>> =>
            /\ last.res = RecvError /\ last.pre_n = 0
            /\ last.post_rx = last.pre_rx /\ last.post_buf = last.pre_buf
      /\ last.pre_rx # <<>> =>
            /\ last.post_rx = Tail(last.pre_rx)
            /\ type_id(Head(last.pre_rx)) = TypeIdOf(last.T) =>
                  /\ last.res = Ok(Head(last.pre_rx).val)
                  /\ last.post_buf = last.pre_buf
            /\ type_id(Head(last.pre_rx)) # TypeIdOf(last.T) =>
                  /\ last.res = BufRecvError(type_id(Head(last.pre_rx)))
                  /\ last.post_buf = [last.pre_buf EXCEPT ![type_id(Head(last.pre_rx))]
                                         = Append(@, Head(last.pre_rx))]

\* recv_live<T> returned the channel's head while T's queue was not empty.
C5_Witness ==
    /\ kind = "buffered"
    /\ last.op = "recv_live" /\ last.res.tag = "Ok"
    /\ last.pre_buf[TypeIdOf(last.T)] # <<>>

\* C6: recv_buf<T> returns the front of T's queue, or EmptyBuffer when the
\* queue is empty; the channel and every other type's queue stay as they were.
C6_RecvBufNeverTouchesChannel ==
    (kind = "buffered" /\ last.op = "recv_buf") =>
      /\ last.post_rx = last.pre_rx
      /\ \A t \in TypeIds \ {TypeIdOf(last.T)} : last.post_buf[t] = last.pre_buf[t]
      /\ last.pre_buf[TypeIdOf(last.T)] # <<>> =>
            /\ last.res = Ok(Head(last.pre_buf[TypeIdOf(last.T)]).val)
            /\ last.post_buf[TypeIdOf(last.T)] = Tail(last.pre_buf[TypeIdOf(last.T)])
      /\ last.pre_buf[TypeIdOf(last.T)] = <<>> =>
            /\ last.res = EmptyBuffer
            /\ last.post_buf = last.pre_buf

\* recv_buf<T> failed with EmptyBuffer although a value of type T was waiting
\* at the head of the channel and the other type's queue was not empty.
C6_Witness ==
    /\ kind = "buffered"
    /\ last.op = "recv_buf" /\ last.res = EmptyBuffer
    /\ last.pre_rx # <<>> /\ type_id(Head(last.pre_rx)) = TypeIdOf(last.T)
    /\ \E t \in TypeIds : last.pre_buf[t] # <<>>

\* The boxes held in a buffer.
Buffered(b) == UNION {{b[t][i] : i \in DOMAIN b[t]} : t \in TypeIds}

NobufOps == {"recv_nobuf", "recv_timeout_nobuf", "try_recv_nobuf"}

\* The AnyReceiver operation a bypass variant corresponds to.
AnyReceiverOutcome(op, T, rx, n) ==
    CASE op = "recv_nobuf" -> AnyReceiver_recv(T, rx, n)
      [] op = "recv_timeout_nobuf" -> AnyReceiver_recv_timeout(T, rx, n)
      [] op = "try_recv_nobuf" -> AnyReceiver_try_recv(T, rx, n)

\* C7: the bypass variants leave the buffer as it was and give the result and
\* the channel that the AnyReceiver operation gives on the same channel; a
\* mismatching head is consumed and handed back inside WrongType, it is not in
\* the buffer, and a recv_buf for its type called next does not return it
\* (EmptyBuffer when the buffer held none of that type).
C7_BypassVariantsNeverBuffer ==
    kind = "buffered" =>
      /\ last.op \in NobufOps =>
            /\ last.post_buf = last.pre_buf
            /\ last.res = AnyReceiverOutcome(last.op, last.T, last.pre_rx, last.pre_n).res
            /\ last.post_rx = AnyReceiverOutcome(last.op, last.T, last.pre_rx, last.pre_n).rx
            /\ (last.pre_rx # <<>> /\ type_id(Head(last.pre_rx)) # TypeIdOf(last.T)) =>
                  /\ last.res = WrongType(Head(last.pre_rx))
                  /\ last.post_rx = Tail(last.pre_rx)
                  /\ Head(last.pre_rx) \notin Buffered(last.post_buf)
      /\ (last.op \in NobufOps /\ last.res.tag = "WrongType") =>
            \A A \in Types : TypeIdOf(A) = type_id(last.res.box) =>
               /\ recv_buf(A, chan, senders, buf).res # Ok(last.res.box.val)
               /\ buf[TypeIdOf(A)] = <<>> =>
                     recv_buf(A, chan, senders, buf).res = EmptyBuffer
      /\ (last.op = "recv_buf" /\ last.res.tag = "Ok") =>
            BoxNew(last.T, last.res.val) \notin handed

\* The second call of the receiver, a recv_buf<A>, found nothing after a
\* bypass variant had handed back a value of type A.
C7_Witness ==
    /\ kind = "buffered" /\ calls = 2
    /\ last.op = "recv_buf" /\ last.res = EmptyBuffer
    /\ \E b \in handed : type_id(b) = TypeIdOf(last.T)

\* C8: recv_until<T> returns Ok or the closed-channel error, exactly as the
\* inner recv<T> produced it, never BufRecvError: on a BufRecvError of the
\* inner recv the call does not return and stays in its loop.
C8_RecvUntilAbsorbsMismatch ==
    (kind = "buffered" /\ last.op = "recv_until") =>
      /\ last.res = recv(last.T, last.pre_rx, last.pre_n, last.pre_buf).res
      /\ last.returned => last.res.tag \in {"Ok", "RecvError"}
      /\ last.res.tag = "BufRecvError" =>
            /\ ~last.returned
            /\ pc = "recv_until" /\ cur.T = last.T
      /\ last.res.tag # "BufRecvError" => last.returned

\* recv_until<T> returned the closed-channel error after absorbing a mismatch.
C8_Witness ==
    /\ kind = "buffered"
    /\ last.op = "recv_until" /\ last.returned
    /\ last.res = RecvError
    /\ cur.iters >= 1

\* The oldest value of type T held by the receiver: the front of T's queue,
\* else the first T in the channel; 0 when there is none.
OldestHeld(T) ==
    LET inChan == ValsOfType(chan, TypeIdOf(T)) IN
    IF buf[TypeIdOf(T)] # <<>> THEN Head(buf[TypeIdOf(T)]).val
    ELSE IF inChan # <<>> THEN Head(inChan)
    ELSE 0

UntilReturned(T, r) ==
    /\ pc = "idle"
    /\ last.op = "recv_until" /\ last.T = T /\ last.returned
    /\ last.res = r

\* C9: under fair scheduling of the consumer, a recv_until<T> in progress
\* while a value of type T is held (buffer or channel, also one sent during
\* the call) eventually returns Ok with the oldest held T; in progress with
\* no sender left and no T held, it eventually returns the closed-channel
\* error; and it returns in no other way: an Ok is of type T, a failure is
\* RecvError seen on an empty channel without senders and without a buffered T.
C9_RecvUntilTermination ==
    /\ \A T \in Types : \A v \in 1..MaxSend :
          (pc = "recv_until" /\ cur.T = T /\ OldestHeld(T) = v)
              ~> UntilReturned(T, Ok(v))
    /\ \A T \in Types :
          (pc = "recv_until" /\ cur.T = T /\ senders = 0 /\ OldestHeld(T) = 0)
              ~> UntilReturned(T, RecvError)
    /\ [](last.op = "recv_until" /\ last.returned =>
            \/ /\ last.res.tag = "Ok"
               /\ BoxNew(last.T, last.res.val) \in {sent[i] : i \in DOMAIN sent}
            \/ /\ last.res = RecvError
               /\ last.pre_rx = <<>> /\ last.pre_n = 0
               /\ last.pre_buf[TypeIdOf(last.T)] = <<>>)

\* recv_until<T> returned the closed-channel error after it had parked a
\* value of another type.
C9_Witness ==
    /\ UntilReturned(last.T, RecvError)
    /\ cur.iters >= 1 /\ Buffered(buf) # {}
    /\ senders = 0

\* The boxes sent with an identity from lo up to, not including, hi.
SentBetween(lo, hi) ==
    LET In(x) == lo <= x.val /\ x.val < hi IN SelectSeq(sent, In)

IsSuffix(a, b) ==
    /\ Len(a) <= Len(b)
    /\ \A i \in DOMAIN a : a[i] = b[Len(b) - Len(a) + i]

\* C10: when recv_until<A> returns a value taken from the channel, every value
\* that stood before it in the channel since the call began is in the buffer,
\* at the back of its own type's queue and in arrival order, nothing of it is
\* left in the channel, and a recv<B> called in that state for a type B with a
\* buffered value returns the front of B's queue without touching the channel.
C10_UntilMatchedParksSkipped ==
    (/\ kind = "buffered" /\ rxAlive
     /\ last.op = "recv_until" /\ last.returned /\ last.res.tag = "Ok") =>
      /\ \A t \in TypeIds :
            IsSuffix(ValsOfType(SentBetween(cur.first, last.res.val), t),
                     ValsOfType(buf[t], t))
      /\ \A i \in DOMAIN chan : chan[i].val > last.res.val
      /\ \A B \in Types :
            buf[TypeIdOf(B)] # <<>> =>
               /\ recv(B, chan, senders, buf).res = Ok(Head(buf[TypeIdOf(B)]).val)
               /\ recv(B, chan, senders, buf).rx = chan

\* recv_until<A> returned the second value sent, the first one, of the other
\* type, is parked.
C10_Witness ==
    /\ kind = "buffered" /\ rxAlive
    /\ last.op = "recv_until" /\ last.returned /\ last.res.tag = "Ok"
    /\ cur.iters >= 1
    /\ SentBetween(cur.first, last.res.val) # <<>>

BlockingOps == {"recv", "recv_live", "recv_nobuf", "recv_until", "AnyReceiver_recv"}

\* The consumer is free to make a call.
CanCall == rxAlive /\ pc = "idle" /\ calls < MaxCalls

\* C11: with every sender dropped and the channel empty, a blocking receive
\* (recv, recv_live, recv_nobuf, recv_until, AnyReceiver::recv) for a type
\* without a buffered value is not suspended: it returns RecvError; and
\* RecvError is only ever returned on an empty channel without senders, so
\* the values still queued when the senders went are handed out first.
C11_ClosedChannelPropagation ==
    /\ (CanCall /\ senders = 0 /\ chan = <<>> /\ kind = "buffered") =>
          \A T \in Types :
             /\ buf[TypeIdOf(T)] = <<>> => ENABLED Recv(T)
             /\ ENABLED RecvLive(T)
             /\ ENABLED RecvNobuf(T)
    /\ (CanCall /\ senders = 0 /\ chan = <<>> /\ kind = "plain") =>
          \A T \in Types : ENABLED AnyReceiverRecv(T)
    /\ (pc = "recv_until" /\ senders = 0 /\ chan = <<>> /\ buf[TypeIdOf(cur.T)] = <<>>) =>
          ENABLED RecvUntil
    /\ (/\ last.op \in BlockingOps
        /\ last.pre_n = 0 /\ last.pre_rx = <<>>
        /\ last.op \in {"recv", "recv_until"} => last.pre_buf[TypeIdOf(last.T)] = <<>>)
          => (last.res = RecvError /\ last.returned)
    /\ (last.op \in BlockingOps /\ last.res.tag = "RecvError") =>
          (last.pre_rx = <<>> /\ last.pre_n = 0)

\* recv failed with the closed-channel error after every value sent had been
\* handed out.
C11_Witness ==
    /\ last.op = "recv" /\ last.res = RecvError
    /\ Len(sent) >= 1 /\ Len(delivered) = Len(sent)

\* Every operation that receives from the channel.
ReceiveOps ==
    {"recv_until", "recv", "recv_live", "recv_timeout", "recv_timeout_live",
     "try_recv", "try_recv_live", "recv_nobuf", "recv_timeout_nobuf",
     "try_recv_nobuf", "AnyReceiver_recv", "AnyReceiver_recv_timeout",
     "AnyReceiver_try_recv"}

\* The boxes in a queue.
Queued(q) == {q[i] : i \in DOMAIN q}

\* The first call on a channel, made when exactly one value, of the requested
\* type, has been sent.
FirstRoundTrip ==
    /\ calls = 1
    /\ last.op \in ReceiveOps
    /\ last.pre_rx # <<>> /\ last.pre_rx = <<sent[1]>>
    /\ type_id(sent[1]) = TypeIdOf(last.T)

\* C12: on a fresh channel, buffered or plain, send(v) of type T followed by a
\* receive requesting T returns Ok with the value that was sent, and the value
\* is then neither in the channel nor in the buffer.
C12_RoundTrip ==
    FirstRoundTrip =>
      /\ last.returned
      /\ last.res.tag = "Ok"
      /\ BoxNew(last.T, last.res.val) = sent[1]
      /\ sent[1] \notin Queued(last.post_rx)
      /\ sent[1] \notin Buffered(last.post_buf)

\* AnyReceiver::recv<T> on a plain channel returned the one value sent.
C12_Witness ==
    /\ kind = "plain"
    /\ FirstRoundTrip
    /\ last.op = "AnyReceiver_recv"
    /\ last.res = Ok(sent[1].val)

\* C13: a send, by whichever producer, succeeds exactly when the receiving end
\* is alive; a successful send of type T appends one box of type T at the tail
\* of the channel, a failed one leaves the channel alone; no send changes the
\* buffer.
C13_SendFailsOnlyWhenReceiverDropped ==
    [][\A T \in Types :
          Send(T) =>
             /\ (sendRes' = "Ok") <=> rxAlive
             /\ (sendRes' = "SendError") <=> ~rxAlive
             /\ rxAlive =>
                   /\ Len(chan') = Len(chan) + 1
                   /\ SubSeq(chan', 1, Len(chan)) = chan
                   /\ type_id(chan'[Len(chan')]) = TypeIdOf(T)
                   /\ chan'[Len(chan')] = sent'[Len(sent')]
             /\ ~rxAlive => chan' = chan
             /\ buf' = buf]_vars

\* A send succeeded behind a queued value while the buffer held a parked one.
C13_Witness ==
    /\ rxAlive /\ sendRes = "Ok"
    /\ Buffered(buf) # {}
    /\ Len(chan) >= 2
    /\ chan[Len(chan)] = sent[Len(sent)]

TimeoutOps == {"recv_timeout", "recv_timeout_live", "recv_timeout_nobuf",
               "AnyReceiver_recv_timeout"}

TryOps == {"try_recv", "try_recv_live", "try_recv_nobuf", "AnyReceiver_try_recv"}

\* The channel-level failure of an operation's mode, seen on an empty channel
\* with n senders left.
ModeFailure(op, n) ==
    IF op \in TimeoutOps THEN RecvTimeoutError(IF n = 0 THEN "Disconnected" ELSE "Timeout")
    ELSE IF op \in TryOps THEN TryRecvError(IF n = 0 THEN "Disconnected" ELSE "Empty")
    ELSE RecvError

\* The operations that go to the channel whatever the buffer holds.
AlwaysOnChannel == {"recv_live"} \cup NobufOps \cup
                   {"AnyReceiver_recv", "AnyReceiver_recv_timeout", "AnyReceiver_try_recv"}

\* C14: RecvTimeoutError comes only from the timeout operations, TryRecvError
\* only from the try_ operations, RecvError only from the blocking ones; an
\* operation that finds the channel empty (and, if it reads the buffer, no
\* buffered value of its type) fails with the error of its own mode; an Ok is
\* a value really taken from the channel or the buffer, and a mismatch is only
\* reported for a value really taken from the channel.
C14_FailureKindFollowsMode ==
    /\ last.res.tag = "RecvTimeoutError" =>
          (last.op \in TimeoutOps /\ last.res.why \in {"Timeout", "Disconnected"})
    /\ last.res.tag = "TryRecvError" =>
          (last.op \in TryOps /\ last.res.why \in {"Empty", "Disconnected"})
    /\ last.res.tag = "RecvError" => last.op \in BlockingOps
    /\ (/\ last.op \in ReceiveOps
        /\ last.pre_rx = <<>>
        /\ last.op \in AlwaysOnChannel \/ last.pre_buf[TypeIdOf(last.T)] = <<>>)
          => last.res = ModeFailure(last.op, last.pre_n)
    /\ (last.op \in ReceiveOps /\ last.res.tag = "Ok") =>
          \/ last.pre_rx # <<>> /\ Head(last.pre_rx) = BoxNew(last.T, last.res.val)
          \/ /\ last.pre_buf[TypeIdOf(last.T)] # <<>>
             /\ Head(last.pre_buf[TypeIdOf(last.T)]) = BoxNew(last.T, last.res.val)
    /\ last.res.tag \in {"BufRecvError", "WrongType"} =>
          (last.pre_rx # <<>> /\ type_id(Head(last.pre_rx)) # TypeIdOf(last.T))

\* recv_timeout timed out on an empty channel whose senders were alive.
C14_Witness ==
    /\ last.op = "recv_timeout"
    /\ last.res = RecvTimeoutError("Timeout")
    /\ last.pre_n > 0

\* C15: whenever the consumer can make a call, each try_ operation can run to
\* its return at once, also on an empty channel with live senders, and what it
\* returns is a value, a mismatch or TryRecvError; the blocking operations are
\* suspended exactly on an empty channel with a live sender (recv and
\* recv_until: and no buffered value of the type).
C15_TryVariantsNeverBlock ==
    /\ (CanCall /\ kind = "buffered") =>
          \A T \in Types :
             /\ ENABLED TryRecv(T)
             /\ ENABLED TryRecvLive(T)
             /\ ENABLED TryRecvNobuf(T)
             /\ recv_live(T, chan, senders, buf).res.tag = "Pending"
                   <=> (chan = <<>> /\ senders > 0)
             /\ recv_nobuf(T, chan, senders, buf).res.tag = "Pending"
                   <=> (chan = <<>> /\ senders > 0)
             /\ recv(T, chan, senders, buf).res.tag = "Pending"
                   <=> (chan = <<>> /\ senders > 0 /\ buf[TypeIdOf(T)] = <<>>)
    /\ (CanCall /\ kind = "plain") =>
          \A T \in Types :
             /\ ENABLED AnyReceiverTryRecv(T)
             /\ ENABLED AnyReceiverRecv(T) <=> ~(chan = <<>> /\ senders > 0)
    /\ (rxAlive /\ pc = "recv_until") =>
          (ENABLED RecvUntil <=>
              ~(chan = <<>> /\ senders > 0 /\ buf[TypeIdOf(cur.T)] = <<>>))
    /\ last.op \in TryOps =>
          /\ last.returned
          /\ last.res.tag \in {"Ok", "BufRecvError", "WrongType", "TryRecvError"}
          /\ (last.res.tag = "TryRecvError" /\ last.pre_n > 0) => last.res.why = "Empty"

\* try_recv returned Empty at once on an empty channel whose sender was alive.
C15_Witness ==
    /\ last.op = "try_recv"
    /\ last.res = TryRecvError("Empty")
    /\ last.pre_rx = <<>> /\ last.pre_n > 0

\* Every buffered box sits in the queue of its own type, has left the channel,
\* and each queue is in the order in which its boxes entered the channel.
SpilloverState ==
    /\ \A t \in TypeIds : \A i \in DOMAIN buf[t] :
          /\ type_id(buf[t][i]) = t
          /\ buf[t][i] \in Queued(sent)
          /\ buf[t][i] \notin Queued(chan)
          /\ \A j \in DOMAIN buf[t] : i < j => buf[t][i].val < buf[t][j].val
    /\ kind = "plain" => buf = Dfb_new

\* A box enters the buffer only as the head of the channel taken by a receive
\* attempt that requested another type and failed with BufRecvError of the
\* box's type; it goes to the back of its queue.
SpilloverStep ==
    \A box \in Buffered(buf') \ Buffered(buf) :
       /\ chan # <<>> /\ box = Head(chan) /\ chan' = Tail(chan)
       /\ last' # last
       /\ last'.res = BufRecvError(type_id(box))
       /\ TypeIdOf(last'.T) # type_id(box)
       /\ buf' = [buf EXCEPT ![type_id(box)] = Append(@, box)]

\* C16: in every reachable state each buffered value is in the queue keyed by
\* its own runtime type and the values of one queue are in the order in which
\* they were taken from the channel; a value gets into the buffer only through
\* a receive call that requested a different type.
C16_BufferSpillover == []SpilloverState /\ [][SpilloverStep]_vars

\* Two values of one type are parked, behind a queue of the other type.
C16_Witness ==
    /\ \E t \in TypeIds : Len(buf[t]) >= 2
    /\ \E t \in TypeIds : Len(buf[t]) = 1

BufferFirstOps == {"recv", "recv_timeout", "try_recv"}

\* C17: recv<T>, recv_timeout<T> and try_recv<T> called with a buffered value
\* of type T return the front of T's queue, pop exactly it, and leave the
\* channel and the other queues as they were; they change the channel only
\* when the buffer holds no T; and with a buffered T they are not suspended,
\* whatever the channel holds.
C17_BufferHitLeavesChannel ==
    /\ (last.op \in BufferFirstOps /\ last.pre_buf[TypeIdOf(last.T)] # <<>>) =>
          /\ last.res = Ok(Head(last.pre_buf[TypeIdOf(last.T)]).val)
          /\ last.post_buf = [last.pre_buf EXCEPT ![TypeIdOf(last.T)] = Tail(@)]
          /\ last.post_rx = last.pre_rx
    /\ (last.op \in BufferFirstOps /\ last.post_rx # last.pre_rx) =>
          last.pre_buf[TypeIdOf(last.T)] = <<>>
    /\ (CanCall /\ kind = "buffered") =>
          \A T \in Types :
             buf[TypeIdOf(T)] # <<>> =>
                (ENABLED Recv(T) /\ ENABLED RecvTimeout(T) /\ ENABLED TryRecv(T))

\* try_recv<T> was served from the buffer although a value of type T stood at
\* the head of the channel.
C17_Witness ==
    /\ last.op = "try_recv" /\ last.res.tag = "Ok"
    /\ last.pre_buf[TypeIdOf(last.T)] # <<>>
    /\ last.pre_rx # <<>> /\ type_id(Head(last.pre_rx)) = TypeIdOf(last.T)

\* The boxes that have left the channel since the recv_until call began.
TakenByUntil ==
    SentBetween(cur.first, IF chan # <<>> THEN Head(chan).val ELSE Len(sent) + 1)

\* C18: a pass of recv_until<T> that ends in BufRecvError has taken exactly
\* the head of the channel, a value of another type, and appended it to the
\* buffer; and the number of times the loop went round equals the number of
\* values of other types that the call has taken from the channel.
C18_UntilIterationConsumes ==
    /\ (last.op = "recv_until" /\ last.res.tag = "BufRecvError") =>
          /\ ~last.returned
          /\ last.pre_rx # <<>>
          /\ type_id(Head(last.pre_rx)) # TypeIdOf(last.T)
          /\ last.post_rx = Tail(last.pre_rx)
          /\ last.post_buf = [last.pre_buf EXCEPT ![type_id(Head(last.pre_rx))]
                                 = Append(@, Head(last.pre_rx))]
    /\ (rxAlive /\ (pc = "recv_until" \/ (last.op = "recv_until" /\ last.returned))) =>
          cur.iters = Len(TakenByUntil) - Len(ValsOfType(TakenByUntil, TypeIdOf(cur.T)))

\* recv_until returned after its loop went round twice.
C18_Witness ==
    /\ rxAlive /\ pc = "idle"
    /\ last.op = "recv_until" /\ last.returned
    /\ cur.iters = 2

RECURSIVE TotalLen(_, _)
\* The number of boxes in the queues of b keyed by S.
TotalLen(b, S) ==
    IF S = {} THEN 0
    ELSE LET t == CHOOSE x \in S : TRUE IN Len(b[t]) + TotalLen(b, S \ {t})

DeliveredBoxes == {[type_id |-> delivered[i].tid, val |-> delivered[i].val] : i \in DOMAIN delivered}

\* C19: while the receiver lives, every value sent is in exactly one place:
\* the channel, the buffer, returned as Ok, or handed back inside WrongType;
\* the places together hold as many values as were sent, and the same ones.
C19_Conservation ==
    rxAlive =>
      /\ Len(chan) + TotalLen(buf, TypeIds) + Len(delivered) + Cardinality(handed)
            = Len(sent)
      /\ Queued(chan) \cup Buffered(buf) \cup DeliveredBoxes \cup handed = Queued(sent)
      /\ Cardinality(Queued(sent)) = Len(sent)

\* Of three values sent one is parked, one was returned and one was handed
\* back by a bypass variant.
C19_Witness ==
    /\ rxAlive
    /\ Buffered(buf) # {} /\ delivered # <<>> /\ handed # {}

FailureTags == {"RecvError", "RecvTimeoutError", "TryRecvError", "EmptyBuffer"}

====
